---- MODULE Spec2Model ----
(***************************************************************************)
(* Case scoring and progression of the medical-education simulator.        *)
(*                                                                         *)
(*   - the scoring rubric of SimulationPage.handleFinishCase               *)
(*     (src/index.tsx, second revision in the file, lines 4271-4344);      *)
(*   - logCaseCompletion of the backend service, current revision          *)
(*     (src/unnamed/part_000, lines 1110-1236);                            *)
(*   - logCaseCompletion of the earlier revision kept in                   *)
(*     src/services/supabaseService.ts, lines 306-400.                     *)
(*                                                                         *)
(* JavaScript numbers are modelled as exact rationals <<n, d>> (d > 0, in  *)
(* lowest terms).  An instant is a count of clock slots since the epoch,   *)
(* SlotsPerDay slots to a day; a date string 'YYYY-MM-DD' is modelled by   *)
(* its day number.                                                         *)
(***************************************************************************)
EXTENDS Bags,  Integers, Sequences, FiniteSets, TLC

(***************************************************************************)
(* Bounds of the model.                                                    *)
(***************************************************************************)
MaxMcqs == 3
MaxDay == 4
MaxCalls == 3
SlotsPerDay == 2
MaxMessages == 1
MaxPending == 2

(***************************************************************************)
(* Program constants.                                                      *)
(***************************************************************************)
MAX_HINTS == 10


(***************************************************************************)
(* Exact arithmetic on JavaScript numbers.                                 *)
(***************************************************************************)
RECURSIVE GCD(_, _)
GCD(a, b) == IF b = 0 THEN a ELSE GCD(b, a % b)

Abs(x) == IF x < 0 THEN -x ELSE x

Norm(n, d) ==
    LET g == GCD(Abs(n), d)
    IN  <<n \div g, d \div g>>

R(i) == <<i, 1>>

Frac(n, d) == Norm(n, d)

RAdd(a, b) == Norm(a[1] * b[2] + b[1] * a[2], a[2] * b[2])

RSub(a, b) == Norm(a[1] * b[2] - b[1] * a[2], a[2] * b[2])

RMul(a, b) == Norm(a[1] * b[1], a[2] * b[2])

\* a / b for b # 0
RDiv(a, b) ==
    IF b[1] < 0 THEN Norm(-(a[1] * b[2]), a[2] * (-b[1]))
                ELSE Norm(a[1] * b[2], a[2] * b[1])

RLe(a, b) == a[1] * b[2] <= b[1] * a[2]

RLt(a, b) == a[1] * b[2] < b[1] * a[2]

MathMax(a, b) == IF RLt(a, b) THEN b ELSE a

MathMin(a, b) == IF RLt(b, a) THEN b ELSE a

(***************************************************************************)
(* Values.                                                                 *)
(***************************************************************************)
Null == "null"

\* A DiagnosticCase with k MCQs; the case is characterised by its list of
\* potential diagnoses and the correct option of each MCQ.
DiagnosticCase(k, marked) ==
    [ title |-> k,
      potentialDiagnoses |->
          << [diagnosis |-> "dxA", isCorrect |-> FALSE],
             [diagnosis |-> "dxB", isCorrect |-> marked] >>,
      mcqs |-> [i \in 1..k |-> [correctAnswerIndex |-> i % 2]] ]

NoCase == [title |-> -1, potentialDiagnoses |-> <<>>, mcqs |-> <<>>]

DiagnosisNames == {"dxA", "dxB"}

OptionIndexes == {0, 1}

\* every value of type DiagnosticCase that SimulationPage may be given
DiagnosticCases == {DiagnosticCase(k, m) : k \in 0..MaxMcqs, m \in BOOLEAN}

\* scores the language model may return for an EPA
EpaScoreValues == {R(-2), R(0), R(4), R(8), R(10), R(12)}

EpaEntry(e, s) == [epa |-> e, score |-> s, justification |-> "text"]

\* bodies the language model may answer the EPA evaluation with
EpaResponses ==
    {<<EpaEntry("History-taking", h), EpaEntry("Physical Exam", p)>> :
         h \in EpaScoreValues, p \in EpaScoreValues}
    \cup {<<EpaEntry("Physical Exam", R(4)), EpaEntry("History-taking", R(8))>>}
    \cup {<<EpaEntry("History-taking", R(8))>>}
    \cup {<<EpaEntry("History-taking", R(8)), EpaEntry("History-taking", R(10))>>}
    \cup {<<EpaEntry("History-taking", R(8)), EpaEntry("Physical Exam", R(4)),
            EpaEntry("Physical Exam", R(10))>>}
    \cup {<<>>}

\* what generateContent resolves with: text that parses as JSON or does not
EpaReplies ==
    {[parses |-> TRUE, body |-> b] : b \in EpaResponses}
    \cup {[parses |-> FALSE, body |-> <<>>]}

(***************************************************************************)
(* Clock and dates.                                                        *)
(***************************************************************************)
\* new Date(t).toISOString().split('T')[0]
UTCDay(t) == t \div SlotsPerDay

\* the calendar day of instant t in the browser's time zone (offset z)
LocalDay(t, z) == (t + z) \div SlotsPerDay

\* new Date('YYYY-MM-DD'): midnight UTC of that day
DateOf(day) == day * SlotsPerDay

TzOffsets == {-1, 0, 1}

(***************************************************************************)
(* The scoring rubric of handleFinishCase.                                 *)
(***************************************************************************)
SetMin(S) == CHOOSE x \in S : \A y \in S : x <= y

\* currentCase.potentialDiagnoses.find(d => d.diagnosis === selectedDiagnosis)
\*     ?.isCorrect || false
DiagnosisCorrect(case, selected) ==
    LET pd == case.potentialDiagnoses
        m  == {i \in DOMAIN pd : pd[i].diagnosis = selected}
    IN  IF m = {} THEN FALSE ELSE pd[SetMin(m)].isCorrect

\* Object.entries(selectedMcqAnswers).filter(...).length
McqCorrectCount(case, answers) ==
    Cardinality({i \in DOMAIN answers :
                     case.mcqs[i].correctAnswerIndex = answers[i]})

\* mutant: the knowledge points of a case without MCQs are dropped
DiagnosisScore_NoRedistribution(diagnosisCorrect, mcqTotal) ==
    IF diagnosisCorrect THEN R(4) ELSE R(0)

\* diagnosisScore after the MCQ block: 4.0 if correct, plus the 2.0 knowledge
\* points when the case has no MCQs
DiagnosisScore(diagnosisCorrect, mcqTotal) ==
    LET base == IF diagnosisCorrect THEN R(4) ELSE R(0)
    IN  IF mcqTotal > 0 THEN base ELSE RAdd(base, R(2))

KnowledgeScore(mcqCorrectCount, mcqTotal) ==
    IF mcqTotal > 0
    THEN RMul(RDiv(R(mcqCorrectCount), R(mcqTotal)), R(2))
    ELSE R(0)

ChatMessage(sender, text) == [sender |-> sender, text |-> text]

\* the history evaluateChatForEPAs puts in its prompt: the messages whose
\* text is not 'Thinking...', one line `sender: text` each
Transcript(chatHistory) ==
    LET kept == SelectSeq(chatHistory, LAMBDA m : m.text # "Thinking...")
    IN  [i \in DOMAIN kept |-> <<kept[i].sender, kept[i].text>>]

evaluateChatForEPAs_NoValidation(reply) == reply.body

\* evaluateChatForEPAs, from the reply of the language model on
evaluateChatForEPAs(reply) ==
    LET parsed == reply.body
        has(e) == \E i \in DOMAIN parsed : parsed[i].epa = e
    IN  IF reply.parses /\ Len(parsed) = 2 /\ has("History-taking")
           /\ has("Physical Exam")
        THEN parsed
        ELSE << [epa |-> "History-taking", score |-> R(0),
                 justification |-> "Evaluation failed due to an AI error."],
                [epa |-> "Physical Exam", score |-> R(0),
                 justification |-> "Evaluation failed due to an AI error."] >>

\* epaScores.find(s => s.epa === name)?.score || 0
EpaScoreOf(epaScores, name) ==
    LET m == {i \in DOMAIN epaScores : epaScores[i].epa = name}
    IN  IF m = {} THEN R(0) ELSE epaScores[SetMin(m)].score

\* mutant: history-taking weighted with the physical-exam weight
HistoryTakingScore_WrongWeight(historyTakingAI) ==
    RMul(RDiv(historyTakingAI, R(10)), Frac(3, 2))

HistoryTakingScore(historyTakingAI) ==
    RMul(RDiv(historyTakingAI, R(10)), Frac(5, 2))

PhysicalExamScore(physicalExamAI) ==
    RMul(RDiv(physicalExamAI, R(10)), Frac(3, 2))

\* the stored item of HINT_STORAGE_KEY is <<>> (absent) or <<[count, date]>>
getHintCount_IgnoresDate(stored, t) ==
    IF stored # <<>> THEN stored[1].count ELSE MAX_HINTS

getHintCount(stored, t) ==
    IF stored # <<>> /\ stored[1].date = UTCDay(t)
    THEN stored[1].count
    ELSE MAX_HINTS

HintPenalty(hintsUsed) == RMul(R(hintsUsed), Frac(1, 2))

\* mutant: the lower clamp is missing
ClampScore_NoLowerBound(x) == MathMin(R(10), x)

\* Math.max(0, Math.min(10, finalScore))
ClampScore(x) == MathMax(R(0), MathMin(R(10), x))

FinalScore(diagnosisScore, knowledgeScore, historyTakingScore, physicalExamScore, hintPenalty) ==
    ClampScore(RSub(RAdd(RAdd(RAdd(diagnosisScore, knowledgeScore),
                              historyTakingScore), physicalExamScore),
                    hintPenalty))

\* the caseResultDetails object and the payload given to logCompletedCase
CaseResultDetails(diagnosisCorrect, mcqCorrectCount, mcqTotal, diagnosisScore, knowledgeScore, epaScores, hintsUsed) ==
    LET historyTakingAI == EpaScoreOf(epaScores, "History-taking")
        physicalExamAI  == EpaScoreOf(epaScores, "Physical Exam")
        historyTakingScore == HistoryTakingScore(historyTakingAI)
        physicalExamScore  == PhysicalExamScore(physicalExamAI)
        hintPenalty == HintPenalty(hintsUsed)
    IN  [ diagnosisCorrect |-> diagnosisCorrect,
          mcqCorrectCount |-> mcqCorrectCount,
          mcqTotal |-> mcqTotal,
          epaScores |-> [history |-> historyTakingAI,
                         physicalExam |-> physicalExamAI],
          hintPenalty |-> hintPenalty,
          finalScore |-> FinalScore(diagnosisScore, knowledgeScore,
                                    historyTakingScore, physicalExamScore,
                                    hintPenalty),
          scoreBreakdown |-> [diagnosis |-> diagnosisScore,
                              knowledge |-> knowledgeScore,
                              historyTaking |-> historyTakingScore,
                              physicalExam |-> physicalExamScore] ]

CaseResultPayload(case, details) ==
    [case_title |-> case.title, case_details |-> details,
     score |-> details.finalScore]

(***************************************************************************)
(* logCaseCompletion, current revision (src/unnamed/part_000).  A table    *)
(* holds the rows of the one user: <<>> (no row) or <<row>>, as            *)
(* maybeSingle() reads it.                                                 *)
(***************************************************************************)
\* todayUTC.toISOString().split('T')[0]
TodayStr(t) == UTCDay(t)

\* yesterdayUTC.setUTCDate(todayUTC.getUTCDate() - 1), as a date string
YesterdayStr(t) == UTCDay(t) - 1

\* progressData?.completed || 0
CasesCompletedBeforeThis_Zero(progressData) == 0

CasesCompletedBeforeThis(progressData) ==
    IF progressData = <<>> THEN 0 ELSE progressData[1].completed

\* mutant: a completion on the day already recorded restarts the streak
NewCurrentStreak_NoSameDay(streakData, t) ==
    IF streakData # <<>>
    THEN IF streakData[1].last_active_day = YesterdayStr(t)
         THEN streakData[1].current_streak + 1
         ELSE 1
    ELSE 1

\* mutant: a gap does not reset the streak
NewCurrentStreak_NoReset(streakData, t) ==
    IF streakData # <<>>
    THEN IF streakData[1].last_active_day = TodayStr(t)
         THEN streakData[1].current_streak
         ELSE streakData[1].current_streak + 1
    ELSE 1

NewCurrentStreak(streakData, t) ==
    IF streakData # <<>>
    THEN LET lastActiveDayStr == streakData[1].last_active_day
         IN  IF lastActiveDayStr = TodayStr(t)
             THEN streakData[1].current_streak
             ELSE IF lastActiveDayStr = YesterdayStr(t)
                  THEN streakData[1].current_streak + 1
                  ELSE 1
    ELSE 1

\* mutant: the maximum is never raised
NewMaxStreak_NeverRaised(streakData, newCurrentStreak) ==
    IF streakData = <<>> THEN 0 ELSE streakData[1].max_streak

\* mutant: the maximum follows the current streak
NewMaxStreak_FollowsCurrent(streakData, newCurrentStreak) ==
    newCurrentStreak

NewMaxStreak(streakData, newCurrentStreak) ==
    LET newMaxStreak == IF streakData = <<>> THEN 0
                        ELSE streakData[1].max_streak
    IN  IF newCurrentStreak > newMaxStreak THEN newCurrentStreak
        ELSE newMaxStreak

StreakUpsert(streakData, t) ==
    LET newCurrentStreak == NewCurrentStreak(streakData, t)
    IN  [ current_streak |-> newCurrentStreak,
          max_streak |-> NewMaxStreak(streakData, newCurrentStreak),
          last_active_day |-> TodayStr(t) ]

\* leaderboardData?.score || 0
CurrentAverageScore(leaderboardData) ==
    IF leaderboardData = <<>> THEN R(0) ELSE leaderboardData[1].score

NewAverageScore(currentAverageScore, casesCompletedBeforeThis, score) ==
    RDiv(RAdd(RMul(currentAverageScore, R(casesCompletedBeforeThis)), score),
         R(casesCompletedBeforeThis + 1))

NotificationInsert ==
    [title |-> "Case Completed!", type |-> "achievement", link |-> "#progress"]

(***************************************************************************)
(* logCaseCompletion, earlier revision (src/services/supabaseService.ts).  *)
(***************************************************************************)
\* today is the instant of the call; yesterday.setDate(today.getDate() - 1)
\* and toDateString() work in the browser's time zone z, and
\* new Date(streak.last_active_day) is midnight UTC of the stored day
LegacyNewCurrentStreak(streak, today, z) ==
    IF streak # <<>>
    THEN LET lastActive == DateOf(streak[1].last_active_day)
             yesterday  == LocalDay(today, z) - 1
         IN  IF streak[1].last_active_day = UTCDay(today)
             THEN streak[1].current_streak
             ELSE IF LocalDay(lastActive, z) = yesterday
                  THEN streak[1].current_streak + 1
                  ELSE 1
    ELSE 1

LegacyStreakUpsert(streak, today, z) ==
    LET newCurrentStreak == LegacyNewCurrentStreak(streak, today, z)
    IN  [ current_streak |-> newCurrentStreak,
          max_streak |-> NewMaxStreak(streak, newCurrentStreak),
          last_active_day |-> UTCDay(today) ]

\* score: currentScore + caseResult.score
LegacyLeaderboardScore(currentScore, score) == RAdd(currentScore, score)

(***************************************************************************)
(* State.                                                                  *)
(***************************************************************************)
VARIABLES
    now,                \* the clock: the current instant
    tz,                 \* offset of the browser's time zone from UTC, in slots
    streaks,            \* table streaks, the user's rows
    progress,           \* table progress
    leaderboard,        \* table leaderboard
    case_logs,          \* table case_logs
    notifications,      \* table notifications
    call,               \* the invocation of logCaseCompletion in flight
    history,            \* the completions that returned without error
    other,              \* a second invocation of logCaseCompletion in flight
    session,            \* AppContext: a user is signed in
    userData,           \* AppContext: the user data held (profile, streak, ...)
    fetching,           \* the calls of fetchAllUserData in flight
    authError,          \* AppContext: the profile data could not be loaded
    page,               \* AppContext: 'home' | 'simulation'
    currentCase,        \* AppContext
    hintStorage,        \* localStorage[HINT_STORAGE_KEY]
    chatStorage,        \* localStorage['chatHistory_' + title], by title
    selectedDiagnosis,  \* SimulationPage
    selectedMcqAnswers, \* SimulationPage
    isFinishing,        \* SimulationPage
    fin,                \* handleFinishCase in flight: its position and locals
    isGenerating,       \* AppContext: handleGenerateAndStart in flight
    generationError,    \* AppContext: the error shown by the generation form
    generated,          \* the language model's answer to the latest generateCase
    messages,           \* SimulationPage: the chat messages
    isResponding,       \* ChatWindow: handleSendMessage in flight
    hintCount,          \* AppContext: the hints left, as the app shows them
    isGeneratingHint,   \* SimulationPage
    hints,              \* the calls of handleRequestHint in flight
    hintLog,            \* the day of the latest hint and the hints given on it
    attempts            \* the number of calls of logCaseCompletion so far

envVars == <<now, tz>>
dbVars == <<streaks, progress, leaderboard, case_logs, notifications>>
svcVars == <<call, history, other>>
authVars == <<session, userData, fetching, authError>>
appVars == <<authVars, page, currentCase, hintStorage, chatStorage>>
simVars == <<selectedDiagnosis, selectedMcqAnswers, isFinishing, fin>>
genVars == <<isGenerating, generationError, generated>>
chatVars == <<messages, isResponding>>
hintVars == <<hintCount, isGeneratingHint, hints, hintLog>>
uiVars == <<genVars, chatVars, hintVars>>
vars == <<envVars, dbVars, svcVars, appVars, simVars, uiVars, attempts>>

NoDetails ==
    CaseResultDetails(FALSE, 0, 0, R(0), R(0), <<>>, 0)

NoResult == [case_title |-> -1, case_details |-> NoDetails, score |-> R(0)]

NoStreak == [current_streak |-> 0, max_streak |-> 0, last_active_day |-> 0]

IdleCall ==
    [ pc |-> "idle", today |-> 0, caseResult |-> NoResult,
      streakData |-> <<>>, progressData |-> <<>>, leaderboardData |-> <<>>,
      progressUpsert |-> 0, streakUpsert |-> NoStreak,
      leaderboardUpsert |-> R(0), readErrors |-> {}, errors |-> {} ]

IdleFinish ==
    [ pc |-> "idle", diagnosisCorrect |-> FALSE, diagnosisScore |-> R(0),
      mcqTotal |-> 0, mcqCorrectCount |-> 0, knowledgeScore |-> R(0),
      hintsUsed |-> 0, case |-> NoCase, chatHistory |-> <<>>,
      transcript |-> <<>>,
      reply |-> [parses |-> FALSE, body |-> <<>>], epaScores |-> <<>> ]

FirstInstant == SlotsPerDay

LastInstant == MaxDay * SlotsPerDay + (SlotsPerDay - 1)

\* the user data the AppContext holds: which of its parts are set
UserFields == {"profile", "streak", "score", "caseLogs", "leaderboard", "notifications"}

\* the chat histories localStorage holds: none for any title
Titles == 0..MaxMcqs

NoChatHistory == [title \in Titles |-> <<>>]

InitBackend ==
    /\ streaks = <<>>
    /\ progress = <<>>
    /\ leaderboard = <<>>
    /\ case_logs = <<>>
    /\ notifications = <<>>
    /\ call = IdleCall
    /\ history = <<>>
    /\ other = IdleCall
    /\ attempts = 0

\* the mount effect has run: setHintCount(getHintCount())
InitUi ==
    /\ isGenerating = FALSE
    /\ generationError = Null
    /\ generated = <<>>
    /\ messages = <<>>
    /\ isResponding = FALSE
    /\ hintCount = getHintCount(hintStorage, now)
    /\ isGeneratingHint = FALSE
    /\ hints = EmptyBag
    /\ hintLog = [day |-> UTCDay(now), n |-> 0]

\* a signed-in user on the home page of a new account
Init ==
    /\ now = FirstInstant
    /\ tz \in TzOffsets
    /\ InitBackend
    /\ session = TRUE
    /\ userData = UserFields
    /\ fetching = 0
    /\ authError = FALSE
    /\ page = "home"
    /\ currentCase = NoCase
    /\ hintStorage = <<>>
    /\ chatStorage = NoChatHistory
    /\ selectedDiagnosis = Null
    /\ selectedMcqAnswers = <<>>
    /\ isFinishing = FALSE
    /\ fin = IdleFinish
    /\ InitUi

(***************************************************************************)
(* The clock.                                                              *)
(***************************************************************************)
Tick ==
    /\ now < LastInstant
    /\ now' = now + 1
    /\ UNCHANGED <<uiVars, attempts, tz, dbVars, svcVars, appVars, simVars>>

\* the clock passes the next midnight UTC
Midnight ==
    /\ UTCDay(now) < MaxDay
    /\ now' = (UTCDay(now) + 1) * SlotsPerDay
    /\ UNCHANGED <<uiVars, attempts, tz, dbVars, svcVars, appVars, simVars>>

(***************************************************************************)
(* logCaseCompletion: the call, its three reads, its five writes.          *)
(***************************************************************************)
\* lines 1114-1117: the call starts and fixes todayUTC
LogCall(caseResult) ==
    /\ call.pc = "idle"
    /\ call' = [IdleCall EXCEPT !.pc = "reads", !.today = now,
                                !.caseResult = caseResult]
    /\ attempts' = attempts + 1

\* lines 1119-1212: the reads resolve and the updates are prepared
Prepared(c) ==
    LET casesCompletedBeforeThis == CasesCompletedBeforeThis(progress)
    IN  [c EXCEPT
             !.pc = "writes",
             !.streakData = streaks,
             !.progressData = progress,
             !.leaderboardData = leaderboard,
             !.progressUpsert = casesCompletedBeforeThis + 1,
             !.streakUpsert = StreakUpsert(streaks, c.today),
             !.leaderboardUpsert =
                 NewAverageScore(CurrentAverageScore(leaderboard),
                                 casesCompletedBeforeThis,
                                 c.caseResult.score)]

LogReads ==
    /\ call.pc = "reads"
    /\ call' = Prepared(call)
    /\ UNCHANGED <<uiVars, attempts, envVars, dbVars, history, other, appVars, simVars>>

\* lines 1214-1229: the five writes are applied and none reports an error
WritesApplied(c) ==
    /\ case_logs' = Append(case_logs, c.caseResult)
    /\ progress' = <<[completed |-> c.progressUpsert]>>
    /\ streaks' = <<c.streakUpsert>>
    /\ leaderboard' = <<[score |-> c.leaderboardUpsert]>>
    /\ notifications' = Append(notifications, NotificationInsert)
    /\ history' = Append(history, [day |-> TodayStr(c.today),
                                   score |-> c.caseResult.score])

LogWrites ==
    /\ call.pc = "writes"
    /\ WritesApplied(call)
    /\ call' = [call EXCEPT !.pc = "returned"]
    /\ UNCHANGED other
    /\ UNCHANGED <<uiVars, attempts, envVars, appVars, simVars>>

(***************************************************************************)
(* AppProvider.logCompletedCase called with a finished case's payload.     *)
(***************************************************************************)
\* payloads of some finished cases, as handleFinishCase builds them
SampleResults ==
    LET case == DiagnosticCase(3, TRUE)
        reply(h, p) == <<EpaEntry("History-taking", R(h)),
                         EpaEntry("Physical Exam", R(p))>>
        result(sel, c, h, p, hintsUsed) ==
            CaseResultPayload(case,
                CaseResultDetails(DiagnosisCorrect(case, sel), c, 3,
                    DiagnosisScore(DiagnosisCorrect(case, sel), 3),
                    KnowledgeScore(c, 3), reply(h, p), hintsUsed))
    IN  { result("dxB", 2, 8, 4, 1),
          result("dxA", 0, 0, 0, 0),
          result("dxB", 3, 10, 10, 0) }

\* logCompletedCase: with a session, logCaseCompletion is called
logCompletedCase(caseResult) ==
    /\ session
    /\ fin.pc = "idle"
    /\ attempts < MaxCalls
    /\ LogCall(caseResult)
    /\ UNCHANGED <<uiVars, envVars, dbVars, history, other, appVars, simVars>>

\* src/index.tsx lines 2192-2194: after logCaseCompletion returned without
\* an error, logCompletedCase awaits fetchAllUserData, which sets the user
\* data; after an error it does not
Refetched(c) == IF c.pc = "returned" THEN UserFields ELSE userData

\* logCaseCompletion has returned to logCompletedCase, which refetches the
\* user data and returns
LogReturn ==
    /\ call.pc \in {"returned", "caught"}
    /\ fin.pc = "idle"
    /\ call' = IdleCall
    /\ userData' = Refetched(call)
    /\ UNCHANGED <<uiVars, attempts, envVars, dbVars, history, other, session,
                   fetching, authError, page, currentCase, hintStorage,
                   chatStorage, simVars>>

Next ==
    \/ Tick
    \/ \E caseResult \in SampleResults : logCompletedCase(caseResult)
    \/ LogReads
    \/ LogWrites
    \/ LogReturn

Spec == Init /\ [][Next]_vars

(***************************************************************************)
(* SimulationPage: selecting a diagnosis, answering the MCQs and finishing *)
(* the case.                                                               *)
(***************************************************************************)
handleSelectDiagnosis(diagnosis) ==
    /\ page = "simulation"
    /\ selectedDiagnosis = Null
    /\ currentCase # NoCase
    /\ selectedDiagnosis' = diagnosis
    /\ UNCHANGED <<uiVars, attempts, envVars, dbVars, svcVars, appVars, selectedMcqAnswers,
                   isFinishing, fin>>

\* the MCQs are shown once a diagnosis is selected; an answered MCQ is disabled
handleSelectMcqAnswer(mcqIndex, optionIndex) ==
    /\ page = "simulation"
    /\ selectedDiagnosis # Null
    /\ mcqIndex \in DOMAIN currentCase.mcqs
    /\ mcqIndex \notin DOMAIN selectedMcqAnswers
    /\ selectedMcqAnswers' =
           [i \in DOMAIN selectedMcqAnswers \cup {mcqIndex} |->
                IF i = mcqIndex THEN optionIndex ELSE selectedMcqAnswers[i]]
    /\ UNCHANGED <<uiVars, attempts, envVars, dbVars, svcVars, appVars, selectedDiagnosis,
                   isFinishing, fin>>

canFinish_Always == TRUE

\* QuestionsPanel: allMcqsAnswered || currentCase.mcqs.length === 0
canFinish ==
    LET n == Len(currentCase.mcqs)
    IN  \/ n > 0 /\ Cardinality(DOMAIN selectedMcqAnswers) = n
        \/ n = 0

\* handleFinishCase up to the call of evaluateChatForEPAs (lines 4271-4296)
FinishStart ==
    /\ page = "simulation"
    /\ currentCase # NoCase
    /\ selectedDiagnosis # Null
    /\ canFinish
    /\ ~isFinishing
    /\ fin.pc = "idle"
    /\ isFinishing' = TRUE
    /\ LET diagnosisCorrect == DiagnosisCorrect(currentCase, selectedDiagnosis)
           mcqTotal == Len(currentCase.mcqs)
           mcqCorrectCount == McqCorrectCount(currentCase, selectedMcqAnswers)
       IN  fin' = [ pc |-> "epa",
                    diagnosisCorrect |-> diagnosisCorrect,
                    diagnosisScore |-> DiagnosisScore(diagnosisCorrect, mcqTotal),
                    mcqTotal |-> mcqTotal,
                    mcqCorrectCount |-> mcqCorrectCount,
                    knowledgeScore |-> KnowledgeScore(mcqCorrectCount, mcqTotal),
                    hintsUsed |-> 0,
                    case |-> currentCase,
                    chatHistory |-> messages,
                    transcript |-> Transcript(messages),
                    reply |-> IdleFinish.reply,
                    epaScores |-> <<>> ]
    /\ UNCHANGED <<uiVars, attempts, envVars, dbVars, svcVars, appVars, selectedDiagnosis,
                   selectedMcqAnswers>>

\* lines 4296-4331: the evaluation resolves, the score is aggregated and
\* logCompletedCase is called
FinishEpa(reply) ==
    /\ fin.pc = "epa"
    /\ LET hintsUsed == MAX_HINTS - getHintCount(hintStorage, now)
           details == CaseResultDetails(fin.diagnosisCorrect,
                          fin.mcqCorrectCount, fin.mcqTotal,
                          fin.diagnosisScore, fin.knowledgeScore,
                          evaluateChatForEPAs(reply), hintsUsed)
       IN  IF session
           THEN /\ fin' = [fin EXCEPT !.pc = "log", !.hintsUsed = hintsUsed,
                                       !.reply = reply,
                                       !.epaScores = evaluateChatForEPAs(reply)]
                /\ LogCall(CaseResultPayload(fin.case, details))
           ELSE /\ fin' = [fin EXCEPT !.pc = "nolog", !.hintsUsed = hintsUsed,
                                       !.reply = reply,
                                       !.epaScores = evaluateChatForEPAs(reply)]
                /\ UNCHANGED <<call, attempts>>
    /\ UNCHANGED <<uiVars, envVars, dbVars, history, other, appVars, selectedDiagnosis,
                   selectedMcqAnswers, isFinishing>>

\* the calls of handleRequestHint in flight, as a bag: each keeps the
\* hintCount of the render it was made in, and whether the SimulationPage
\* it was made in is still mounted (at most one is)
PendingHint(count, mounted) == [hintCount |-> count, mounted |-> mounted]

PendingHints ==
    {PendingHint(count, mounted) : count \in 0..MAX_HINTS, mounted \in BOOLEAN}

Unmounted(pending) ==
    LET live == {h \in BagToSet(pending) : h.mounted}
    IN  IF live = {} THEN pending
        ELSE LET h == CHOOSE x \in live : TRUE
             IN  (pending (-) SetToBag({h}))
                     (+) SetToBag({PendingHint(h.hintCount, FALSE)})

\* localStorage.removeItem(chatHistoryKey)
HistoryRemoved(storage, title) ==
    IF title \in Titles THEN [storage EXCEPT ![title] = <<>>] ELSE storage

\* the cleanup of the effect of SimulationPage, run when it unmounts: the
\* messages are saved under the title, or the entry is removed when there
\* are none (lines 4222-4228)
SavedOnUnmount(storage) ==
    IF page = "simulation" /\ currentCase # NoCase
    THEN [storage EXCEPT ![currentCase.title] = messages]
    ELSE storage

\* setPage('home') unmounts SimulationPage: its state is gone, and the state
\* setters that calls still in flight hold no longer have an effect
UnmountSimulation ==
    /\ messages' = <<>>
    /\ isResponding' = FALSE
    /\ isGeneratingHint' = FALSE
    /\ hints' = Unmounted(hints)

\* evaluateChatForEPAs rejects (the request to the language model fails):
\* the catch block logs it and the finally block leaves the simulation
FinishEpaRejected ==
    /\ fin.pc = "epa"
    /\ fin' = IdleFinish
    /\ isFinishing' = FALSE
    /\ page' = "home"
    /\ UnmountSimulation
    /\ chatStorage' = SavedOnUnmount(chatStorage)
    /\ UNCHANGED <<genVars, hintCount, hintLog, attempts, envVars, dbVars, svcVars, authVars, currentCase, hintStorage,
                   selectedDiagnosis, selectedMcqAnswers>>

\* lines 4333-4343: logCompletedCase has returned
FinishReturn ==
    /\ \/ /\ fin.pc = "log"
          /\ call.pc \in {"returned", "caught"}
          /\ call' = IdleCall
       \/ fin.pc = "nolog" /\ UNCHANGED call
    /\ fin' = IdleFinish
    /\ isFinishing' = FALSE
    /\ page' = "home"
    /\ UnmountSimulation
    /\ chatStorage' = SavedOnUnmount(HistoryRemoved(chatStorage, fin.case.title))
    /\ userData' = Refetched(call)
    /\ UNCHANGED <<genVars, hintCount, hintLog, attempts, envVars, dbVars, history, other, session, fetching, authError, currentCase, hintStorage,
                   selectedDiagnosis, selectedMcqAnswers>>

\* the simulation page showing a case, with the day's hint budget as stored
InitRubric ==
    /\ now = FirstInstant
    /\ tz = 0
    /\ InitBackend
    /\ session = TRUE
    /\ userData = UserFields
    /\ fetching = 0
    /\ authError = FALSE
    /\ page = "simulation"
    /\ currentCase \in DiagnosticCases
    /\ hintStorage \in
           {<<>>} \cup
           {<<[count |-> c, date |-> d]>> :
                c \in 0..MAX_HINTS, d \in {UTCDay(now) - 1, UTCDay(now)}}
    /\ chatStorage = NoChatHistory
    /\ selectedDiagnosis = Null
    /\ selectedMcqAnswers = <<>>
    /\ isFinishing = FALSE
    /\ fin = IdleFinish
    /\ InitUi

NextRubric ==
    \/ \E diagnosis \in DiagnosisNames : handleSelectDiagnosis(diagnosis)
    \/ \E mcqIndex \in 1..MaxMcqs, optionIndex \in OptionIndexes :
           handleSelectMcqAnswer(mcqIndex, optionIndex)
    \/ FinishStart
    \/ \E reply \in EpaReplies : FinishEpa(reply)
    \/ FinishEpaRejected
    \/ LogReads
    \/ LogWrites
    \/ FinishReturn

SpecRubric == InitRubric /\ [][NextRubric]_vars

(***************************************************************************)
(* The earlier revision: its finish handler's payload and its              *)
(* logCaseCompletion (four writes, no notification).                       *)
(***************************************************************************)
\* src/index.tsx lines 1288-1306: JSON.stringify(caseResultDetails) and
\* score: (diagnosisCorrect ? 50 : 0) + (mcqCorrectCount * 10)
LegacyCaseResult(diagnosisCorrect, mcqCorrectCount, mcqTotal) ==
    [ case_title |-> mcqTotal,
      case_details |-> [diagnosisCorrect |-> diagnosisCorrect,
                        mcqCorrectCount |-> mcqCorrectCount,
                        mcqTotal |-> mcqTotal],
      score |-> R((IF diagnosisCorrect THEN 50 ELSE 0) + mcqCorrectCount * 10) ]

LegacySampleResults ==
    { LegacyCaseResult(TRUE, 2, 3), LegacyCaseResult(FALSE, 0, 3),
      LegacyCaseResult(TRUE, 3, 3) }

\* src/index.tsx lines 413-422 and supabaseService.ts lines 310-312
LegacyLogCompletedCase(caseResult) ==
    /\ session
    /\ Len(case_logs) < MaxCalls
    /\ LogCall(caseResult)
    /\ UNCHANGED <<uiVars, envVars, dbVars, history, other, appVars, simVars>>

\* supabaseService.ts lines 314-378
LegacyLogReads ==
    /\ call.pc = "reads"
    /\ call' = [call EXCEPT
            !.pc = "writes",
            !.streakData = streaks,
            !.progressData = progress,
            !.leaderboardData = leaderboard,
            !.progressUpsert = CasesCompletedBeforeThis(progress) + 1,
            !.streakUpsert = LegacyStreakUpsert(streaks, call.today, tz),
            !.leaderboardUpsert =
                LegacyLeaderboardScore(CurrentAverageScore(leaderboard),
                                       call.caseResult.score)]
    /\ UNCHANGED <<uiVars, attempts, envVars, dbVars, history, other, appVars, simVars>>

\* supabaseService.ts lines 380-393
LegacyLogWrites ==
    /\ call.pc = "writes"
    /\ case_logs' = Append(case_logs,
                           [case_title |-> call.caseResult.case_title,
                            case_details |-> call.caseResult.case_details])
    /\ progress' = <<[completed |-> call.progressUpsert]>>
    /\ streaks' = <<call.streakUpsert>>
    /\ leaderboard' = <<[score |-> call.leaderboardUpsert]>>
    /\ call' = [call EXCEPT !.pc = "returned"]
    /\ UNCHANGED other
    /\ history' = Append(history, [day |-> UTCDay(call.today),
                                   score |-> call.caseResult.score])
    /\ UNCHANGED <<uiVars, attempts, envVars, notifications, appVars, simVars>>

NextLegacy ==
    \/ Tick
    \/ \E caseResult \in LegacySampleResults : LegacyLogCompletedCase(caseResult)
    \/ LegacyLogReads
    \/ LegacyLogWrites
    \/ LogReturn

SpecLegacy == Init /\ [][NextLegacy]_vars

(***************************************************************************)
(* logCaseCompletion when the database reports errors, and what            *)
(* logCompletedCase and handleFinishCase do with the error raised.         *)
(***************************************************************************)
Writes == {"case_logs", "progress", "streaks", "leaderboard", "notifications"}

WritesOutcome_ErrorsIgnored(errors) == "returned"

\* lines 1223-1235: any write that reports an error makes the call throw
WritesOutcome(errors) == IF errors = {} THEN "returned" ELSE "threw"

Reads == {"streaks", "progress", "leaderboard"}

ReadsOutcome_ErrorsIgnored(readErrors) == "writes"

\* lines 1129-1131: any read that reports an error makes the call throw
ReadsOutcome(readErrors) == IF readErrors = {} THEN "writes" ELSE "threw"

\* lines 1119-1131: the three reads run together and those in readErrors
\* report an error
LogReadsOutcome(readErrors) ==
    /\ call.pc = "reads"
    /\ call' = [call EXCEPT !.pc = ReadsOutcome(readErrors),
                            !.readErrors = readErrors]
    /\ UNCHANGED <<uiVars, attempts, envVars, dbVars, history, other, appVars,
                   simVars>>

\* at least one of the three reads reports an error
LogReadsFailed ==
    \E readErrors \in (SUBSET Reads) \ {{}} : LogReadsOutcome(readErrors)

\* lines 1214-1235: the five writes run together; those in errors report an
\* error and change nothing, the others are applied
LogWritesOutcome(errors) ==
    /\ call.pc = "writes"
    /\ case_logs' = IF "case_logs" \in errors THEN case_logs
                    ELSE Append(case_logs, call.caseResult)
    /\ progress' = IF "progress" \in errors THEN progress
                   ELSE <<[completed |-> call.progressUpsert]>>
    /\ streaks' = IF "streaks" \in errors THEN streaks
                  ELSE <<call.streakUpsert>>
    /\ leaderboard' = IF "leaderboard" \in errors THEN leaderboard
                      ELSE <<[score |-> call.leaderboardUpsert]>>
    /\ notifications' = IF "notifications" \in errors THEN notifications
                        ELSE Append(notifications, NotificationInsert)
    /\ call' = [call EXCEPT !.pc = WritesOutcome(errors), !.errors = errors]
    /\ UNCHANGED other
    /\ history' = IF errors = {}
                  THEN Append(history, [day |-> TodayStr(call.today),
                                        score |-> call.caseResult.score])
                  ELSE history
    /\ UNCHANGED <<uiVars, attempts, envVars, appVars, simVars>>

\* src/index.tsx lines 2195-2197: logCompletedCase catches the error, writes
\* it to the console and returns
LogCaught ==
    /\ call.pc = "threw"
    /\ call' = [call EXCEPT !.pc = "caught"]
    /\ UNCHANGED <<uiVars, attempts, envVars, dbVars, history, other, appVars,
                   simVars>>

(***************************************************************************)
(* AppContextProvider: generating a case and starting it, leaving the      *)
(* simulation, and the daily hint budget.                                  *)
(***************************************************************************)
\* cases generateCase accepts: one correct diagnosis and at least one MCQ
GeneratedCases == {DiagnosticCase(k, TRUE) : k \in 1..MaxMcqs}

\* handleGenerateAndStart up to its await of generateCase
handleGenerateAndStart ==
    /\ page = "home"
    /\ ~isGenerating
    /\ attempts < MaxCalls
    /\ isGenerating' = TRUE
    /\ generationError' = Null
    /\ generated' = <<>>
    /\ UNCHANGED <<envVars, dbVars, svcVars, appVars, simVars, chatVars,
                   hintVars, attempts>>

\* handleStartNewCase, and the effect SimulationPage runs when it mounts:
\* the chat history saved under the title of the case is loaded
handleStartNewCase(caseData) ==
    /\ currentCase' = caseData
    /\ hintCount' = getHintCount(hintStorage, now)
    /\ page' = "simulation"
    /\ selectedDiagnosis' = Null
    /\ selectedMcqAnswers' = <<>>
    /\ isFinishing' = FALSE
    /\ messages' = chatStorage[caseData.title]
    /\ isResponding' = FALSE
    /\ isGeneratingHint' = FALSE
    /\ UNCHANGED chatStorage

\* generateCase resolves with a case: the case is started
GenerateResolved(caseData) ==
    /\ isGenerating
    /\ handleStartNewCase(caseData)
    /\ isGenerating' = FALSE
    /\ UNCHANGED <<envVars, dbVars, svcVars, authVars, hintStorage, fin,
                   generationError, generated, hints, hintLog, attempts>>

\* generateCase rejects: the error is shown by the generation form
GenerateRejected ==
    /\ isGenerating
    /\ generationError' = "Failed to prepare the simulation."
    /\ isGenerating' = FALSE
    /\ UNCHANGED generated
    /\ UNCHANGED <<envVars, dbVars, svcVars, appVars, simVars, chatVars,
                   hintVars, attempts>>

\* the Home button of the header: setPage('home')
GoHome ==
    /\ page = "simulation"
    /\ page' = "home"
    /\ UnmountSimulation
    /\ chatStorage' = SavedOnUnmount(chatStorage)
    /\ UNCHANGED <<envVars, dbVars, svcVars, authVars, currentCase,
                   hintStorage, simVars, genVars, hintCount, hintLog,
                   attempts>>

HintErrorText == "Sorry, I couldn't generate a hint right now. Please try again."

HintRequestAccepted_NoBudgetCheck(count, generating) == ~generating

\* the guard of handleRequestHint: the request is rejected without it
HintRequestAccepted(count, generating) == ~(count <= 0 \/ generating)

\* handleRequestHint up to its await of generateHint; the call keeps the
\* hintCount of the render it was made in
handleRequestHint ==
    /\ page = "simulation"
    /\ currentCase # NoCase
    /\ HintRequestAccepted(hintCount, isGeneratingHint)
    /\ Len(messages) < MaxMessages
    /\ BagCardinality(hints) < MaxPending
    /\ isGeneratingHint' = TRUE
    /\ hints' = hints (+) SetToBag({PendingHint(hintCount, TRUE)})
    /\ UNCHANGED <<envVars, dbVars, svcVars, appVars, simVars, genVars,
                   chatVars, hintCount, hintLog, attempts>>

\* updateHintCount: what it stores
HintUsage(newCount, t) == <<[count |-> newCount, date |-> UTCDay(t)]>>

\* the hints given on the day of instant t: counted up to MAX_HINTS + 1,
\* beyond that the count alternates between MAX_HINTS + 1 and MAX_HINTS + 2
HintGiven(log, t) ==
    IF log.day = UTCDay(t)
    THEN [log EXCEPT !.n = IF log.n = MAX_HINTS + 2 THEN MAX_HINTS + 1
                           ELSE log.n + 1]
    ELSE [day |-> UTCDay(t), n |-> 1]

\* generateHint resolves: the hint is shown and updateHintCount(hintCount - 1)
HintResolved(h) ==
    /\ BagIn(h, hints)
    /\ IF h.mounted
       THEN /\ messages' = Append(messages, ChatMessage("system", "hint"))
            /\ isGeneratingHint' = FALSE
       ELSE UNCHANGED <<messages, isGeneratingHint>>
    /\ hintCount' = h.hintCount - 1
    /\ hintStorage' = HintUsage(h.hintCount - 1, now)
    /\ hintLog' = HintGiven(hintLog, now)
    /\ hints' = hints (-) SetToBag({h})
    /\ UNCHANGED <<envVars, dbVars, svcVars, authVars, page, currentCase, chatStorage,
                   simVars, genVars, isResponding, attempts>>

StoredAfterHintError_Decremented(stored, h) == HintUsage(h.hintCount - 1, now)

\* the catch block of handleRequestHint does not call updateHintCount
StoredAfterHintError(stored, h) == stored

\* generateHint rejects: an error message is shown, the budget is kept
HintRejected(h) ==
    /\ BagIn(h, hints)
    /\ IF h.mounted
       THEN /\ messages' = Append(messages, ChatMessage("system", HintErrorText))
            /\ isGeneratingHint' = FALSE
       ELSE UNCHANGED <<messages, isGeneratingHint>>
    /\ hints' = hints (-) SetToBag({h})
    /\ hintStorage' = StoredAfterHintError(hintStorage, h)
    /\ UNCHANGED <<envVars, dbVars, svcVars, authVars, page, currentCase, chatStorage,
                   simVars, genVars, isResponding, hintCount, hintLog,
                   attempts>>

InitHints == Init /\ tz = 0

NextHints ==
    \/ Midnight
    \/ handleGenerateAndStart
    \/ GenerateResolved(DiagnosticCase(1, TRUE))
    \/ GoHome
    \/ handleRequestHint
    \/ \E h \in PendingHints : HintResolved(h)
    \/ \E h \in PendingHints : HintRejected(h)

SpecHints == InitHints /\ [][NextHints]_vars

(***************************************************************************)
(* ChatWindow: the conversation with the patient, and finishing a case the *)
(* conversation belongs to.                                                *)
(***************************************************************************)
\* what the user may type; nothing keeps them from typing the placeholder
UserInputs == {"question", "Thinking..."}

PatientReplies == {"answer"}

SendErrorText == "Sorry, I'm having trouble responding right now. Please try again."

\* handleSendMessage up to its await of chat.sendMessage
handleSendMessage(userInput) ==
    /\ page = "simulation"
    /\ currentCase # NoCase
    /\ ~isResponding
    /\ Len(messages) < MaxMessages
    /\ messages' = messages \o <<ChatMessage("user", userInput),
                                 ChatMessage("patient", "Thinking...")>>
    /\ isResponding' = TRUE
    /\ UNCHANGED <<envVars, dbVars, svcVars, appVars, simVars, genVars,
                   hintVars, attempts>>

\* prev.slice(0, -1)
DropLast(prev) == SubSeq(prev, 1, Len(prev) - 1)

\* chat.sendMessage resolves: the last message is replaced by the answer
SendResolved(text) ==
    /\ isResponding
    /\ messages' = Append(DropLast(messages), ChatMessage("patient", text))
    /\ isResponding' = FALSE
    /\ UNCHANGED <<envVars, dbVars, svcVars, appVars, simVars, genVars,
                   hintVars, attempts>>

\* chat.sendMessage rejects: the last message is replaced by an error message
SendRejected ==
    /\ isResponding
    /\ messages' = Append(DropLast(messages),
                          ChatMessage("system", SendErrorText))
    /\ isResponding' = FALSE
    /\ UNCHANGED <<envVars, dbVars, svcVars, appVars, simVars, genVars,
                   hintVars, attempts>>

\* the simulation page just after a generated case was started
InitChat ==
    /\ now = FirstInstant
    /\ tz = 0
    /\ InitBackend
    /\ session = TRUE
    /\ userData = UserFields
    /\ fetching = 0
    /\ authError = FALSE
    /\ page = "simulation"
    /\ currentCase = DiagnosticCase(1, TRUE)
    /\ hintStorage = <<>>
    /\ chatStorage = NoChatHistory
    /\ selectedDiagnosis = Null
    /\ selectedMcqAnswers = <<>>
    /\ isFinishing = FALSE
    /\ fin = IdleFinish
    /\ InitUi

NextChat ==
    \/ \E userInput \in UserInputs : handleSendMessage(userInput)
    \/ \E text \in PatientReplies : SendResolved(text)
    \/ SendRejected
    \/ handleRequestHint
    \/ \E h \in PendingHints : HintResolved(h)
    \/ \E h \in PendingHints : HintRejected(h)
    \/ \E diagnosis \in DiagnosisNames : handleSelectDiagnosis(diagnosis)
    \/ \E optionIndex \in OptionIndexes : handleSelectMcqAnswer(1, optionIndex)
    \/ FinishStart
    \/ \E reply \in EpaReplies : FinishEpa(reply)
    \/ FinishEpaRejected
    \/ LogReads
    \/ LogWrites
    \/ FinishReturn

SpecChat == InitChat /\ [][NextChat]_vars

(***************************************************************************)
(* Cases generated, finished and persisted one after the other, with       *)
(* requests to the language model and to the database that may fail.       *)
(***************************************************************************)
\* an evaluation of the conversation
FailReply ==
    [parses |-> TRUE,
     body |-> <<EpaEntry("History-taking", R(8)), EpaEntry("Physical Exam", R(4))>>]

NextFail ==
    \/ handleGenerateAndStart
    \/ GenerateResolved(DiagnosticCase(1, TRUE))
    \/ GenerateRejected
    \/ handleSelectDiagnosis("dxB")
    \/ handleSelectMcqAnswer(1, 1)
    \/ FinishStart
    \/ FinishEpa(FailReply)
    \/ FinishEpaRejected
    \/ LogReads
    \/ LogReadsFailed
    \/ \E errors \in SUBSET Writes : LogWritesOutcome(errors)
    \/ LogCaught
    \/ FinishReturn

SpecFail == InitHints /\ [][NextFail]_vars

(***************************************************************************)
(* Properties of the scoring rubric, checked under SpecRubric.             *)
(***************************************************************************)
\* a finish has persisted its result and not yet left the simulation page
Persisted == fin.pc = "log" /\ call.pc = "returned"

PersistedRow == case_logs[Len(case_logs)]

\* the selected diagnosis is one the case marks correct
SelectedIsCorrect ==
    \E i \in DOMAIN currentCase.potentialDiagnoses :
        /\ currentCase.potentialDiagnoses[i].diagnosis = selectedDiagnosis
        /\ currentCase.potentialDiagnoses[i].isCorrect

\* the number of MCQs answered with their correct option
AnsweredCorrectly ==
    Cardinality({i \in DOMAIN currentCase.mcqs :
                    /\ i \in DOMAIN selectedMcqAnswers
                    /\ selectedMcqAnswers[i] =
                           currentCase.mcqs[i].correctAnswerIndex})

\* the sum of the four stored components minus half a point per hint used
RawScore(details, hintsUsed) ==
    LET b == details.scoreBreakdown
    IN  RSub(RAdd(RAdd(b.diagnosis, b.knowledge),
                  RAdd(b.historyTaking, b.physicalExam)),
             Frac(hintsUsed, 2))

\* C1: the persisted finalScore is the sum of the four stored components
\* minus 0.5 per hint used, clamped to [0, 10], for every hintsUsed in
\* 0..MAX_HINTS; every persisted score lies in [0, 10].
C1_FinalScoreIsClampedSum ==
    Persisted =>
        LET row == PersistedRow
            raw == RawScore(row.case_details, fin.hintsUsed)
        IN  /\ fin.hintsUsed \in 0..MAX_HINTS
            /\ row.score = row.case_details.finalScore
            /\ row.score = IF RLt(raw, R(0)) THEN R(0)
                           ELSE IF RLt(R(10), raw) THEN R(10) ELSE raw
            /\ RLe(R(0), row.score)
            /\ RLe(row.score, R(10))

\* C1 witness: a result is persisted whose raw sum is negative (hints used,
\* clamped up to 0)
C1_Witness ==
    /\ Persisted
    /\ fin.hintsUsed > 0
    /\ RLt(RawScore(PersistedRow.case_details, fin.hintsUsed), R(0))
    /\ PersistedRow.score = R(0)

C3_NoMcqsRedistribution ==
    (Persisted /\ PersistedRow.case_details.mcqTotal = 0) =>
        LET d == PersistedRow.case_details
        IN  /\ Len(currentCase.mcqs) = 0
            /\ SelectedIsCorrect => d.scoreBreakdown.diagnosis = R(6)
            /\ d.scoreBreakdown.knowledge = R(0)
            /\ RLe(PersistedRow.score, R(10))
            /\ (/\ SelectedIsCorrect
                /\ d.epaScores.history = R(10)
                /\ d.epaScores.physicalExam = R(10)
                /\ fin.hintsUsed = 0)
               => PersistedRow.score = R(10)

\* C3 witness: a case without MCQs finished with the correct diagnosis, both
\* EPA scores 10 and no hint, persisted with score 10
C3_Witness ==
    /\ Persisted
    /\ Len(currentCase.mcqs) = 0
    /\ SelectedIsCorrect
    /\ PersistedRow.case_details.epaScores = [history |-> R(10),
                                              physicalExam |-> R(10)]
    /\ fin.hintsUsed = 0
    /\ PersistedRow.case_details.scoreBreakdown.diagnosis = R(6)
    /\ PersistedRow.score = R(10)

\* C4: with MCQs the stored breakdown is diagnosis = 4 if correct else 0,
\* knowledge = correct/total * 2, historyTaking = history/10 * 2.5,
\* physicalExam = physicalExam/10 * 1.5, and the penalty is 0.5 per hint;
\* correct diagnosis, 2 of 3 MCQs, history 8, physical exam 4 and one hint
\* give 7.433 (223/30).
C4_WeightedBreakdown ==
    (Persisted /\ Len(currentCase.mcqs) > 0) =>
        LET d == PersistedRow.case_details
            b == d.scoreBreakdown
        IN  /\ d.mcqTotal = Len(currentCase.mcqs)
            /\ d.mcqCorrectCount = AnsweredCorrectly
            /\ d.diagnosisCorrect = SelectedIsCorrect
            /\ b.diagnosis = IF SelectedIsCorrect THEN R(4) ELSE R(0)
            /\ RMul(b.knowledge, R(d.mcqTotal)) = R(2 * d.mcqCorrectCount)
            /\ RMul(b.historyTaking, R(4)) = d.epaScores.history
            /\ RMul(b.physicalExam, R(20)) = RMul(R(3), d.epaScores.physicalExam)
            /\ RMul(d.hintPenalty, R(2)) = R(fin.hintsUsed)
            /\ (/\ SelectedIsCorrect
                /\ d.mcqTotal = 3
                /\ AnsweredCorrectly = 2
                /\ d.epaScores.history = R(8)
                /\ d.epaScores.physicalExam = R(4)
                /\ fin.hintsUsed = 1)
               => PersistedRow.score = Frac(223, 30)

\* C4 witness: the example of the rubric is persisted
C4_Witness ==
    /\ Persisted
    /\ SelectedIsCorrect
    /\ Len(currentCase.mcqs) = 3
    /\ AnsweredCorrectly = 2
    /\ PersistedRow.case_details.epaScores = [history |-> R(8),
                                              physicalExam |-> R(4)]
    /\ fin.hintsUsed = 1
    /\ PersistedRow.case_details.scoreBreakdown =
           [diagnosis |-> R(4), knowledge |-> Frac(4, 3),
            historyTaking |-> R(2), physicalExam |-> Frac(3, 5)]
    /\ PersistedRow.score = Frac(223, 30)

(***************************************************************************)
(* Properties of logCaseCompletion.                                        *)
(***************************************************************************)
\* logCaseCompletion has applied its writes and not yet returned
Logged == call.pc = "returned"

MaxStreakStored == IF streaks = <<>> THEN 0 ELSE streaks[1].max_streak

\* the days on which a completion was logged
ActiveDays == {history[i].day : i \in DOMAIN history}

\* the number of consecutive active days that end with day d
RECURSIVE RunEndingAt(_)
RunEndingAt(d) == IF d \in ActiveDays THEN 1 + RunEndingAt(d - 1) ELSE 0

RECURSIVE SumScores(_)
SumScores(h) == IF h = <<>> THEN R(0)
                ELSE RAdd(h[1].score, SumScores(Tail(h)))

\* C5: a completion whose stored last_active_day is yesterday (UTC) writes
\* current_streak + 1; one whose last_active_day is older, or with no
\* streak record, writes 1.
C5_StreakStep ==
    Logged =>
        LET sd == call.streakData
            today == UTCDay(call.today)
        IN  /\ (sd # <<>> /\ sd[1].last_active_day = today - 1)
                   => streaks[1].current_streak = sd[1].current_streak + 1
            /\ (sd = <<>> \/ sd[1].last_active_day < today - 1)
                   => streaks[1].current_streak = 1

\* C5 witness: a completion logged on the day after the last active day
C5_Witness ==
    /\ Logged
    /\ call.streakData # <<>>
    /\ call.streakData[1].last_active_day = UTCDay(call.today) - 1
    /\ streaks[1].current_streak = call.streakData[1].current_streak + 1

\* C6: a completion logged when last_active_day is today (UTC) writes the
\* current_streak it read.
C6_SameDayUnchanged ==
    (Logged /\ call.streakData # <<>>
            /\ call.streakData[1].last_active_day = UTCDay(call.today))
        => streaks[1].current_streak = call.streakData[1].current_streak

\* C6 witness: a second completion on a day on which the streak is 2
C6_Witness ==
    /\ Logged
    /\ call.streakData # <<>>
    /\ call.streakData[1].last_active_day = UTCDay(call.today)
    /\ call.streakData[1].current_streak = 2
    /\ streaks[1].current_streak = 2

\* C7: every stored streak record has max_streak >= current_streak.
C7_MaxAtLeastCurrent ==
    streaks # <<>> => streaks[1].max_streak >= streaks[1].current_streak

\* C7 witness: a completion has raised max_streak above the value it read
C7_Witness ==
    /\ Logged
    /\ call.streakData # <<>>
    /\ streaks[1].max_streak > call.streakData[1].max_streak
    /\ streaks[1].max_streak = streaks[1].current_streak

\* C8: the stored max_streak never decreases.
C8_MaxStreakMonotone == [][MaxStreakStored' >= MaxStreakStored]_vars

\* C8 witness: a completion after a gap has reset current_streak below
\* max_streak
C8_Witness ==
    /\ Logged
    /\ call.streakData # <<>>
    /\ call.streakData[1].last_active_day < UTCDay(call.today) - 1
    /\ streaks[1].current_streak = 1
    /\ streaks[1].max_streak = 2

\* C9: after successful sequential completions from an empty account,
\* current_streak is the number of consecutive UTC days with a completion
\* that end with the day of the latest completion, and last_active_day is
\* that day.
C9_StreakCountsConsecutiveDays ==
    history # <<>> =>
        LET latest == history[Len(history)].day
        IN  /\ streaks # <<>>
            /\ streaks[1].last_active_day = latest
            /\ streaks[1].current_streak = RunEndingAt(latest)

\* C9 witness: three completions, the last one on the day after a day
\* with two completions
C9_Witness ==
    /\ Len(history) = 3
    /\ history[1].day = history[2].day
    /\ history[3].day = history[2].day + 1
    /\ streaks[1].current_streak = 2

\* C10: after N successful sequential completions from an empty account the
\* leaderboard score is the arithmetic mean of the N logged scores; each
\* completion writes (old_avg * priorCompleted + score) / (priorCompleted + 1).
C10_LeaderboardIsMean ==
    /\ history # <<>> =>
           /\ leaderboard # <<>>
           /\ RMul(leaderboard[1].score, R(Len(history))) = SumScores(history)
    /\ Logged =>
           LET n == CasesCompletedBeforeThis(call.progressData)
               old == CurrentAverageScore(call.leaderboardData)
           IN  RMul(leaderboard[1].score, R(n + 1)) =
                   RAdd(RMul(old, R(n)), call.caseResult.score)

\* C10 witness: two completions with different scores are logged
C10_Witness ==
    /\ Logged
    /\ Len(history) = 2
    /\ history[1].score # history[2].score
    /\ RMul(leaderboard[1].score, R(2)) =
           RAdd(history[1].score, history[2].score)

(***************************************************************************)
(* Properties of the completion counters, checked under Spec.              *)
(***************************************************************************)
\* the lifetime counter as the progress table holds it
Completed(table) == IF table = <<>> THEN 0 ELSE table[1].completed

\* C11: each successful logCaseCompletion increases progress.completed by
\* exactly 1, appends exactly one case_logs row and inserts exactly one
\* notification; so after successful sequential completions on an empty
\* account, completed equals the number of case_logs rows.
C11_CompletionCounters ==
    /\ [][ (call.pc = "writes" /\ call'.pc = "returned") =>
               /\ Completed(progress') = Completed(progress) + 1
               /\ case_logs' = Append(case_logs, call.caseResult)
               /\ Len(notifications') = Len(notifications) + 1 ]_vars
    /\ [](Completed(progress) = Len(case_logs))

\* three completions have been logged
C11_Witness ==
    /\ call.pc = "returned"
    /\ Len(case_logs) = 3
    /\ progress = <<[completed |-> 3]>>
    /\ Len(notifications) = 3

(***************************************************************************)
(* Properties of failing writes, checked under SpecFail.                   *)
(***************************************************************************)
\* a step in which the five writes of a call completed
WritesDone == call.pc = "writes" /\ call'.pc # "writes"

\* what a table holds after a write that did or did not report an error
Written(name, before, after) ==
    IF name \in call'.errors THEN before ELSE after

\* C12: if any of the five completion writes reports an error,
\* logCaseCompletion throws; the writes of that batch that succeeded are
\* applied and stay applied, no table is changed after the error.
C12_WriteFailureRaisesNoRollback ==
    [][ /\ WritesDone =>
            /\ call'.pc = (IF call'.errors = {} THEN "returned" ELSE "threw")
            /\ case_logs' = Written("case_logs", case_logs,
                                    Append(case_logs, call.caseResult))
            /\ progress' = Written("progress", progress,
                                   <<[completed |-> call.progressUpsert]>>)
            /\ streaks' = Written("streaks", streaks, <<call.streakUpsert>>)
            /\ leaderboard' = Written("leaderboard", leaderboard,
                                      <<[score |-> call.leaderboardUpsert]>>)
            /\ Len(notifications') =
                   Len(notifications)
                       + (IF "notifications" \in call'.errors THEN 0 ELSE 1)
        /\ call.pc \in {"threw", "caught"} => UNCHANGED dbVars
      ]_vars

\* a second call threw on its leaderboard write: both case logs are kept,
\* the leaderboard holds the first score only
C12_Witness ==
    /\ call.pc = "threw"
    /\ call.errors = {"leaderboard"}
    /\ Len(case_logs) = 2
    /\ progress = <<[completed |-> 2]>>
    /\ leaderboard = <<[score |-> case_logs[1].score]>>

\* an error state the user can see: the generation error, or a system
\* message in the chat
ErrorShown ==
    \/ generationError # Null
    \/ /\ page = "simulation"
       /\ \E i \in DOMAIN messages : messages[i].sender = "system"

\* C13: when logCaseCompletion threw, handleFinishCase ends with an error
\* state set that the user can see.
C13_PersistFailureShown ==
    [][ (fin.pc = "log" /\ call.pc = "caught" /\ fin'.pc = "idle")
            => ErrorShown' ]_vars

(***************************************************************************)
(* Properties of the EPA evaluation, checked under SpecRubric.             *)
(***************************************************************************)
\* the reply does not parse into exactly two entries, one per competency
Malformed(reply) ==
    \/ ~reply.parses
    \/ Len(reply.body) # 2
    \/ ~\E i \in DOMAIN reply.body : reply.body[i].epa = "History-taking"
    \/ ~\E i \in DOMAIN reply.body : reply.body[i].epa = "Physical Exam"

\* handleFinishCase has received the evaluation and called logCompletedCase
Evaluated == fin.pc = "log"

\* C14: when the reply of the language model is malformed, evaluateChatForEPAs
\* returns score 0 for History-taking and for Physical Exam with the failure
\* justification, and the finish flow goes on: a score is aggregated with
\* both EPA components 0 and logCaseCompletion is called with it.
C14_MalformedEvaluationScoresZero ==
    (Evaluated /\ Malformed(fin.reply)) =>
        /\ Len(fin.epaScores) = 2
        /\ \A i \in {1, 2} :
               /\ fin.epaScores[i].score = R(0)
               /\ fin.epaScores[i].justification =
                      "Evaluation failed due to an AI error."
        /\ {fin.epaScores[i].epa : i \in {1, 2}} =
               {"History-taking", "Physical Exam"}
        /\ call.pc \in {"reads", "writes", "returned"}
        /\ LET d == call.caseResult.case_details
           IN  /\ d.epaScores = [history |-> R(0), physicalExam |-> R(0)]
               /\ d.scoreBreakdown.historyTaking = R(0)
               /\ d.scoreBreakdown.physicalExam = R(0)
               /\ d.finalScore = call.caseResult.score

\* a finish with a malformed evaluation has been persisted
C14_Witness ==
    /\ Evaluated
    /\ Malformed(fin.reply)
    /\ fin.reply.parses
    /\ call.pc = "returned"
    /\ Len(case_logs) = 1
    /\ RLt(R(0), case_logs[1].score)

\* C15: the result of evaluateChatForEPAs has exactly two entries, one per
\* competency, each with a score in [0, 10], whatever the language model
\* answers; so the stored breakdown has historyTaking <= 2.5 and
\* physicalExam <= 1.5.
C15_EpaScoresInRange ==
    Evaluated =>
        /\ Len(fin.epaScores) = 2
        /\ {fin.epaScores[i].epa : i \in {1, 2}} =
               {"History-taking", "Physical Exam"}
        /\ \A i \in {1, 2} :
               RLe(R(0), fin.epaScores[i].score)
                   /\ RLe(fin.epaScores[i].score, R(10))
        /\ LET b == call.caseResult.case_details.scoreBreakdown
           IN  RLe(b.historyTaking, Frac(5, 2)) /\ RLe(b.physicalExam, Frac(3, 2))

(***************************************************************************)
(* Properties of the daily hint budget, checked under SpecHints.           *)
(***************************************************************************)
\* the stored hint usage carries today's date
StoredToday == hintStorage # <<>> /\ hintStorage[1].date = UTCDay(now)

\* the hints left for today, as the stored record tells
RemainingToday == IF StoredToday THEN hintStorage[1].count ELSE MAX_HINTS

\* a step in which generateHint resolved and a hint was consumed
HintConsumed == hintLog' # hintLog

\* a step in which a case is started, which reads the hint budget
BudgetRead == isGenerating /\ ~isGenerating' /\ page' = "simulation"

\* C17: once MAX_HINTS hints have been consumed on the current day, the
\* stored count is 0 and a further hint request is rejected (the app's
\* hintCount is 0, so handleRequestHint returns at its guard).
C17_BudgetExhausted ==
    (hintLog.day = UTCDay(now) /\ hintLog.n >= MAX_HINTS) =>
        /\ hintStorage = <<[count |-> 0, date |-> UTCDay(now)]>>
        /\ hintCount <= 0

\* C18: the stored hint count and the app's hintCount stay within
\* 0..MAX_HINTS in every reachable state.
C18_HintCountInRange ==
    /\ hintCount \in 0..MAX_HINTS
    /\ hintStorage # <<>> => hintStorage[1].count \in 0..MAX_HINTS

\* a hint request is rejected on the simulation page because the budget,
\* stored under today's date, is used up
C18_Witness ==
    /\ page = "simulation"
    /\ hintCount = 0
    /\ hintStorage = <<[count |-> 0, date |-> UTCDay(now)]>>
    /\ UTCDay(now) > UTCDay(FirstInstant)

\* C19: a read of the hint budget on a date different from the stored date
\* returns MAX_HINTS and rewrites the stored record to MAX_HINTS under
\* today's date.
C19_RolloverRewritesStore ==
    [][ (BudgetRead /\ hintStorage # <<>> /\ ~StoredToday) =>
            /\ hintCount' = MAX_HINTS
            /\ hintStorage' = <<[count |-> MAX_HINTS, date |-> UTCDay(now)]>>
      ]_vars

\* C20: a consumed hint stores, under today's date, one less than the hints
\* that were left for today before it (MAX_HINTS if the stored date was not
\* today).
C20_ConsumptionStoresRemainingMinusOne ==
    [][ HintConsumed =>
            hintStorage' = <<[count |-> RemainingToday - 1,
                              date |-> UTCDay(now)]>> ]_vars

(***************************************************************************)
(* Properties of the evaluated transcript, checked under SpecChat.         *)
(***************************************************************************)
\* the 'Thinking...' placeholder handleSendMessage shows while it waits
IsPlaceholder(m) == m.sender = "patient" /\ m.text = "Thinking..."

\* the user and patient turns of a conversation, in their order
Turns(chatHistory) ==
    SelectSeq(chatHistory,
              LAMBDA m : m.sender \in {"user", "patient"} /\ ~IsPlaceholder(m))

\* C16: the transcript sent to the EPA evaluation holds, in their order,
\* exactly the user and patient turns of the conversation: no system turn
\* and no 'Thinking...' placeholder.
C16_TranscriptIsUserAndPatientTurns ==
    fin.pc # "idle" =>
        LET turns == Turns(fin.chatHistory)
        IN  fin.transcript = [i \in DOMAIN turns |->
                                  <<turns[i].sender, turns[i].text>>]

\* a step in which generateHint rejected
HintFailed ==
    BagCardinality(hints') < BagCardinality(hints) /\ hintLog' = hintLog

\* C21: if generateHint raises, the app's hintCount and the stored record are
\* unchanged; the stored record changes, and hintCount goes down, only in a
\* step in which a hint was generated, and then both hold the same count.
C21_FailedHintKeepsBudget ==
    [][ /\ HintFailed => (hintCount' = hintCount /\ hintStorage' = hintStorage)
        /\ (hintStorage' # hintStorage \/ hintCount' < hintCount) =>
               /\ HintConsumed
               /\ hintStorage' # <<>>
               /\ hintStorage'[1].count = hintCount' ]_vars

\* a hint request failed on a day on which a hint had been consumed before
C21_Witness ==
    /\ page = "simulation"
    /\ messages = <<ChatMessage("system",
           "Sorry, I couldn't generate a hint right now. Please try again.")>>
    /\ hintCount = MAX_HINTS - 1
    /\ hintStorage = <<[count |-> MAX_HINTS - 1, date |-> UTCDay(now)]>>


(***************************************************************************)
(* Cases played one after another: a case is generated and started, hints  *)
(* are requested, the questions are answered and the case is finished,     *)
(* while days pass.  The reads of logCaseCompletion fail, so the tables    *)
(* stay as they are and only what is passed to it is observed.             *)
(***************************************************************************)
NextCases ==
    \/ Midnight
    \/ handleGenerateAndStart
    \/ GenerateResolved(DiagnosticCase(1, TRUE))
    \/ handleRequestHint
    \/ \E h \in PendingHints : HintResolved(h)
    \/ handleSelectDiagnosis("dxB")
    \/ handleSelectMcqAnswer(1, 1)
    \/ FinishStart
    \/ FinishEpa(FailReply)
    \/ LogReadsFailed
    \/ LogCaught
    \/ FinishReturn

SpecCases == InitHints /\ [][NextCases]_vars

\* a step in which handleFinishCase computes the score and the penalty
PenaltyComputed == fin.pc = "epa" /\ fin'.pc \in {"log", "nolog"}

\* C22: the hintsUsed of a finish is MAX_HINTS minus the hints remaining
\* in the stored daily budget when the score is computed (MAX_HINTS remain
\* when the stored date is not today), so it lies in 0..MAX_HINTS and sets
\* the penalty of the logged result; starting a case does not touch the
\* stored budget, so hints of earlier cases of the day count
C22_HintsUsedIsBudgetSpent ==
    [][ /\ PenaltyComputed =>
               /\ fin'.hintsUsed = MAX_HINTS - RemainingToday
               /\ fin'.hintsUsed \in 0..MAX_HINTS
               /\ fin'.pc = "log" =>
                      call'.caseResult.case_details.hintPenalty
                          = Frac(fin'.hintsUsed, 2)
        /\ BudgetRead => hintStorage' = hintStorage ]_vars

\* a second case of the day being finished without a hint of its own,
\* after a hint was used in the first
C22_Witness ==
    /\ fin.pc = "log"
    /\ attempts = 2
    /\ messages = <<>>
    /\ hintLog = [day |-> UTCDay(now), n |-> 1]
    /\ fin.hintsUsed = 1
    /\ call.caseResult.case_details.hintPenalty = Frac(1, 2)


(***************************************************************************)
(* generateCase: the validation of the language model's answer, and        *)
(* handleGenerateAndStart from the answer on.                              *)
(***************************************************************************)
\* an answer of the language model, parsed: the fields generateCase and
\* handleStartNewCase look at (a missing field is FALSE, a missing title 0)
CaseResponse(title, profile, tags, marked, k) ==
    [ title |-> title,
      patientProfile |-> profile,
      tags |-> tags,
      potentialDiagnoses |->
          << [diagnosis |-> "dxA", isCorrect |-> marked > 1],
             [diagnosis |-> "dxB", isCorrect |-> marked > 0] >>,
      mcqs |-> [i \in 1..k |-> [correctAnswerIndex |-> i % 2]] ]

CaseResponses ==
    {CaseResponse(title, profile, tags, marked, k) :
         title \in {0, 1}, profile \in BOOLEAN, tags \in BOOLEAN,
         marked \in 0..2, k \in 0..MaxMcqs}

CaseOf(response) ==
    [ title |-> response.title,
      potentialDiagnoses |-> response.potentialDiagnoses,
      mcqs |-> response.mcqs ]

generateCase_NoValidation(response) == <<CaseOf(response)>>

\* geminiService.ts line 185: the parsed case, or nothing when it throws
generateCase(response) ==
    IF \/ ~response.patientProfile
       \/ Cardinality({i \in DOMAIN response.potentialDiagnoses :
                           response.potentialDiagnoses[i].isCorrect}) # 1
       \/ Len(response.mcqs) < 1
       \/ ~response.tags
    THEN <<>>
    ELSE <<CaseOf(response)>>

\* the language model answers: generateCase validates the answer and the
\* case is started, or the error is shown (lines 2275-2283)
GenerateAnswered(response) ==
    /\ isGenerating
    /\ generated' = <<response>>
    /\ isGenerating' = FALSE
    /\ LET newCase == generateCase(response)
       IN  IF newCase = <<>>
           THEN /\ generationError' = "Failed to prepare the simulation."
                /\ UNCHANGED <<page, currentCase, chatStorage, simVars,
                               chatVars, hintCount, isGeneratingHint>>
           ELSE IF newCase[1].title = 0
           THEN UNCHANGED <<generationError, page, currentCase, chatStorage,
                            simVars, chatVars, hintCount, isGeneratingHint>>
           ELSE /\ handleStartNewCase(newCase[1])
                /\ UNCHANGED <<generationError, fin>>
    /\ UNCHANGED <<envVars, dbVars, svcVars, authVars, hintStorage, hints,
                   hintLog, attempts>>

NextGenerate ==
    \/ handleGenerateAndStart
    \/ \E response \in CaseResponses : GenerateAnswered(response)
    \/ GenerateRejected
    \/ GoHome
    \/ \E diagnosis \in DiagnosisNames : handleSelectDiagnosis(diagnosis)
    \/ \E optionIndex \in OptionIndexes : handleSelectMcqAnswer(1, optionIndex)

SpecGenerate == InitHints /\ [][NextGenerate]_vars

\* a step in which the language model's answer is handled
Answered == generated' # <<>> /\ isGenerating /\ ~isGenerating'

\* an answer with exactly one diagnosis marked correct and at least one MCQ
WellFormed(response) ==
    /\ \E i \in DOMAIN response.potentialDiagnoses :
           /\ response.potentialDiagnoses[i].isCorrect
           /\ \A j \in DOMAIN response.potentialDiagnoses :
                  response.potentialDiagnoses[j].isCorrect => j = i
    /\ Len(response.mcqs) >= 1

\* C23: a case is started only from an answer with exactly one diagnosis
\* marked correct and at least one MCQ; on any other answer the error is
\* shown, currentCase and page stay as they are, and a new attempt is open
C23_InvalidCaseCommitsNothing ==
    [][ Answered =>
            /\ (page' # page \/ currentCase' # currentCase) =>
                   /\ WellFormed(generated'[1])
                   /\ currentCase' = CaseOf(generated'[1])
            /\ ~WellFormed(generated'[1]) =>
                   /\ generationError' # Null
                   /\ currentCase' = currentCase
                   /\ page' = page
                   /\ ~isGenerating' ]_vars

\* an answer with two diagnoses marked correct was refused after a case
\* had been played
C23_Witness ==
    /\ generated # <<>>
    /\ generated[1].potentialDiagnoses[1].isCorrect
    /\ generated[1].potentialDiagnoses[2].isCorrect
    /\ Len(generated[1].mcqs) >= 1
    /\ generationError # Null
    /\ page = "home"
    /\ currentCase # NoCase
    /\ ~isGenerating


\* a step in which a finish whose completion was logged returns and the
\* app goes back to the home page
FinishedSuccessfully ==
    /\ fin.pc = "log"
    /\ call.pc = "returned"
    /\ fin'.pc = "idle"
    /\ page' = "home"

\* C24: once a case with a non-empty transcript is finished successfully
\* and the app is back on the home page, no chat history is stored under
\* the title of the case
C24_FinishedCaseLeavesNoHistory ==
    [][ (FinishedSuccessfully /\ fin.transcript # <<>>) =>
            chatStorage'[fin.case.title] = <<>> ]_vars


(***************************************************************************)
(* Navigation while a case is being finished: the Home button stays        *)
(* available, and from the home page a new case can be generated.          *)
(***************************************************************************)
NextNavigate ==
    \/ handleGenerateAndStart
    \/ GenerateResolved(DiagnosticCase(1, TRUE))
    \/ GenerateResolved(DiagnosticCase(2, TRUE))
    \/ GoHome
    \/ handleSendMessage("question")
    \/ SendResolved("answer")
    \/ handleSelectDiagnosis("dxB")
    \/ \E mcqIndex \in 1..2 : handleSelectMcqAnswer(mcqIndex, 1)
    \/ FinishStart
    \/ FinishEpa(FailReply)
    \/ FinishEpaRejected
    \/ LogReads
    \/ LogWrites
    \/ FinishReturn

SpecNavigate == InitHints /\ [][NextNavigate]_vars

\* handleFinishCase is in flight and the SimulationPage it was started in
\* is no longer shown: the home page is, or a SimulationPage mounted since
NavigatedAway == fin.pc # "idle" /\ (page = "home" \/ ~isFinishing)

\* C25: when a finish in flight completes after the user navigated away,
\* the page and the case the user moved to are left as they are
C25_BackgroundFinishKeepsPage ==
    [][ (NavigatedAway /\ fin'.pc = "idle") =>
            (page' = page /\ currentCase' = currentCase) ]_vars


\* a step in which chat.sendMessage resolved or rejected
ReplyCompleted == isResponding /\ ~isResponding' /\ page' = "simulation"

\* the messages without the 'Thinking...' placeholders
WithoutPlaceholders(chatHistory) ==
    SelectSeq(chatHistory, LAMBDA m : ~IsPlaceholder(m))

\* C26: while no reply is in flight the chat holds no 'Thinking...'
\* placeholder, and the completion of a reply removes the placeholder and
\* nothing else, also when a hint was appended while the reply was in flight
C26_PlaceholderOnlyWhileResponding ==
    [][ /\ ~isResponding' => WithoutPlaceholders(messages') = messages'
        /\ ReplyCompleted =>
               /\ Len(messages') = Len(messages)
               /\ WithoutPlaceholders(messages)
                      = SubSeq(messages', 1, Len(messages') - 1) ]_vars


(***************************************************************************)
(* Two invocations of logCaseCompletion for the same user, the second      *)
(* made elsewhere (another tab or device of the user): each runs its       *)
(* reads, then its writes.                                                 *)
(***************************************************************************)
OtherCall(caseResult) ==
    /\ other.pc = "idle"
    /\ attempts < MaxCalls
    /\ other' = [IdleCall EXCEPT !.pc = "reads", !.today = now,
                                 !.caseResult = caseResult]
    /\ attempts' = attempts + 1
    /\ UNCHANGED <<uiVars, envVars, dbVars, call, history, appVars, simVars>>

OtherReads ==
    /\ other.pc = "reads"
    /\ other' = Prepared(other)
    /\ UNCHANGED <<uiVars, attempts, envVars, dbVars, call, history, appVars,
                   simVars>>

OtherWrites ==
    /\ other.pc = "writes"
    /\ WritesApplied(other)
    /\ other' = [other EXCEPT !.pc = "returned"]
    /\ UNCHANGED <<uiVars, attempts, envVars, call, appVars, simVars>>

OtherReturn ==
    /\ other.pc = "returned"
    /\ other' = IdleCall
    /\ UNCHANGED <<uiVars, attempts, envVars, dbVars, call, history, appVars,
                   simVars>>

NextOverlap ==
    \/ Midnight
    \/ \E caseResult \in SampleResults : logCompletedCase(caseResult)
    \/ LogReads
    \/ LogWrites
    \/ LogReturn
    \/ \E caseResult \in SampleResults : OtherCall(caseResult)
    \/ OtherReads
    \/ OtherWrites
    \/ OtherReturn

SpecOverlap == InitHints /\ [][NextOverlap]_vars

\* both invocations have returned, and both had read the tables before
\* either wrote them
Overlapped ==
    /\ call.pc = "returned"
    /\ other.pc = "returned"
    /\ call.progressData = other.progressData

\* the sum of the scores of the rows of case_logs
RECURSIVE SumOfScores(_)
SumOfScores(logs) ==
    IF logs = <<>> THEN R(0)
    ELSE RAdd(logs[1].score, SumOfScores(Tail(logs)))

\* C27: when two invocations overlap (both read before either writes) and
\* both succeed, progress.completed has grown by 2, the leaderboard score
\* is the mean of all logged scores, and the streak is what running the two
\* one after the other gives
C27_OverlappingCompletionsBothCount ==
    Overlapped =>
        /\ progress[1].completed
               = CasesCompletedBeforeThis(call.progressData) + 2
        /\ leaderboard[1].score
               = RDiv(SumOfScores(case_logs), R(Len(case_logs)))
        /\ \/ streaks = <<StreakUpsert(<<StreakUpsert(call.streakData,
                                                      call.today)>>,
                                       other.today)>>
           \/ streaks = <<StreakUpsert(<<StreakUpsert(call.streakData,
                                                      other.today)>>,
                                       call.today)>>


\* the invocation in flight had a read that reported an error
ReadFailed(c) == c.readErrors # {}

\* C28: when any of the three initial reads reports an error, the call
\* raises and issues none of its writes: the five tables stay as they are
C28_ReadFailureRaisesWithoutWrites ==
    [][ /\ ReadFailed(call') => call'.pc \in {"threw", "caught"}
        /\ ReadFailed(call) => dbVars' = dbVars ]_vars

\* a read failed for the second case of a user whose first case was logged
C28_Witness ==
    /\ call.pc = "caught"
    /\ call.readErrors = {"leaderboard"}
    /\ Len(case_logs) = 1
    /\ progress = <<[completed |-> 1]>>


\* a step in which handleFinishCase is called
FinishCalled == fin.pc = "idle" /\ fin'.pc = "epa"

\* C29: a finish starts only with a diagnosis selected and every MCQ of the
\* case answered, and not while isFinishing is set; the selected diagnosis
\* and every MCQ answer stay as first given; each finish calls
\* logCaseCompletion at most once, and every row of case_logs has
\* 0 <= mcqCorrectCount <= mcqTotal
C29_FinishOnlyWhenAnswered ==
    [][ /\ FinishCalled =>
               /\ ~isFinishing
               /\ selectedDiagnosis # Null
               /\ \A i \in 1..Len(currentCase.mcqs) :
                      i \in DOMAIN selectedMcqAnswers
        /\ selectedDiagnosis # Null => selectedDiagnosis' = selectedDiagnosis
        /\ \A i \in DOMAIN selectedMcqAnswers :
               /\ i \in DOMAIN selectedMcqAnswers'
               /\ selectedMcqAnswers'[i] = selectedMcqAnswers[i]
        /\ attempts' # attempts =>
               /\ attempts' = attempts + 1
               /\ fin.pc = "epa"
               /\ fin'.pc = "log"
        /\ \A r \in DOMAIN case_logs' :
               /\ case_logs'[r].case_details.mcqCorrectCount >= 0
               /\ case_logs'[r].case_details.mcqCorrectCount
                      <= case_logs'[r].case_details.mcqTotal ]_vars

\* a case with two MCQs, one answered correctly, has been logged and its
\* finish has not returned yet
C29_Witness ==
    /\ isFinishing
    /\ fin.pc = "log"
    /\ call.pc = "returned"
    /\ attempts = 1
    /\ DOMAIN selectedMcqAnswers = {1, 2}
    /\ Len(case_logs) = 1
    /\ case_logs[1].case_details.mcqTotal = 2
    /\ case_logs[1].case_details.mcqCorrectCount = 1


(***************************************************************************)
(* Sign-in and sign-out: the listener of onAuthStateChange and the calls   *)
(* of fetchAllUserData it starts, next to completions being logged.        *)
(***************************************************************************)
\* the listener runs with a session (sign-in): fetchAllUserData is started
\* and not awaited (lines 2131-2133)
AuthSignedIn ==
    /\ ~session
    /\ fetching < MaxPending
    /\ session' = TRUE
    /\ fetching' = fetching + 1
    /\ UNCHANGED <<envVars, dbVars, svcVars, userData, authError, page,
                   currentCase, hintStorage, chatStorage, simVars, uiVars,
                   attempts>>

\* lines 2134-2143: every part of the user data is cleared
ClearedOnSignOut(data) == {}

\* handleSignOut on the home page: signOut() makes the listener run without
\* a session, which clears the user data; then setPage('home')
handleSignOut ==
    /\ session
    /\ page = "home"
    /\ session' = FALSE
    /\ userData' = ClearedOnSignOut(userData)
    /\ UNCHANGED <<envVars, dbVars, svcVars, fetching, authError, page,
                   currentCase, hintStorage, chatStorage, simVars, uiVars,
                   attempts>>

\* the six reads of a call of fetchAllUserData resolve: the user data is set
FetchResolved ==
    /\ fetching > 0
    /\ fetching' = fetching - 1
    /\ userData' = UserFields
    /\ UNCHANGED <<envVars, dbVars, svcVars, session, authError, page,
                   currentCase, hintStorage, chatStorage, simVars, uiVars,
                   attempts>>

\* one of the reads rejects: authError is set
FetchRejected ==
    /\ fetching > 0
    /\ fetching' = fetching - 1
    /\ authError' = TRUE
    /\ UNCHANGED <<envVars, dbVars, svcVars, session, userData, page,
                   currentCase, hintStorage, chatStorage, simVars, uiVars,
                   attempts>>

NextAuth ==
    \/ Midnight
    \/ AuthSignedIn
    \/ handleSignOut
    \/ FetchResolved
    \/ FetchRejected
    \/ \E caseResult \in SampleResults : logCompletedCase(caseResult)
    \/ LogReads
    \/ LogWrites
    \/ LogReturn

SpecAuth == InitHints /\ [][NextAuth]_vars

\* C30: while there is no session, the app holds no user data: profile,
\* streak, score, case logs, leaderboard and notifications stay cleared,
\* also when a call of fetchAllUserData made before the sign-out resolves
\* after it
C30_NoUserDataWithoutSession ==
    ~session => userData = {}

====
